---------------------------- MODULE Spec2Model ----------------------------
(***************************************************************************)
(* A model of src/fol.py: term unification (unify, unify_var, tokenize),   *)
(* substitution application (apply_single_substitution,                   *)
(* apply_substitution), binary resolution on literal text (resolve_clause) *)
(* and the saturation loop (inference_by_resolution).                      *)
(*                                                                         *)
(* Python strings are modelled as sequences of one-character strings, so   *)
(* that slicing, split, strip, startswith and the regular expression of    *)
(* the source are computed character by character.  A dict is a function   *)
(* whose domain is its key set; a frozenset is a set.                      *)
(***************************************************************************)
EXTENDS Naturals, Sequences, FiniteSets

VARIABLES
    op,            \* which function of fol.py the behaviour exercises
    pc,            \* "call" before the function body runs, "done" after
    term1,         \* unify: first argument
    term2,         \* unify: second argument
    supplied,      \* unify: the dict the caller passed, as it was at the call
    substitution,  \* unify: the caller's dict object (mutated in place); apply: the dict applied
    ret,           \* unify: the returned value
    clause,        \* apply_substitution: the clause currently held
    prev,          \* apply_substitution: the clause before the last application
    applications,  \* apply_substitution: how many times it has been applied
    clause1,       \* resolve_clause: first argument
    clause2,       \* resolve_clause: second argument
    resolvents,    \* resolve_clause: the returned set
    kb,            \* inference_by_resolution: the knowledge base argument
    query,         \* inference_by_resolution: the query argument
    clauses,       \* inference_by_resolution: the local working set
    state          \* inference_by_resolution: Running / Proved (True) / NotEntailed (False)

vars == <<op, pc, term1, term2, supplied, substitution, ret, clause, prev,
          applications, clause1, clause2, resolvents, kb, query, clauses, state>>

unifyVars == <<term1, term2, supplied, substitution, ret>>
applyVars == <<clause, prev, applications>>
resolveVars == <<clause1, clause2, resolvents>>
inferVars == <<kb, query, clauses, state>>

-----------------------------------------------------------------------------
(* Characters and string primitives of Python used by fol.py.              *)

\* The negation marker, one character.
NEG == "¬"

\* [a-z] of the regular expression r'^[a-z]$'.
Lowercase ==
    {"a", "b", "c", "d", "e", "f", "g", "h", "i", "j", "k", "l", "m",
     "n", "o", "p", "q", "r", "s", "t", "u", "v", "w", "x", "y", "z"}

\* str.startswith('¬')
StartsWithNeg(s) == Len(s) >= 1 /\ s[1] = NEG

\* s[1:]
DropFirst(s) == SubSeq(s, 2, Len(s))

\* s[:-1]
DropLast(s) == SubSeq(s, 1, Len(s) - 1)

\* c in s, for a one-character c
Contains(s, c) == \E i \in 1..Len(s) : s[i] = c

\* Index of the first occurrence of c in s (0 when absent).
IndexOf(s, c) ==
    IF Contains(s, c) THEN CHOOSE i \in 1..Len(s) : s[i] = c /\ \A j \in 1..(i - 1) : s[j] # c
    ELSE 0

\* str.split(c): the pieces between the occurrences of c, at least one piece.
RECURSIVE Split(_, _)
Split(s, c) ==
    LET i == IndexOf(s, c)
    IN  IF i = 0 THEN <<s>>
        ELSE <<SubSeq(s, 1, i - 1)>> \o Split(SubSeq(s, i + 1, Len(s)), c)

\* The characters str.strip() removes (those with str.isspace()): tab, line
\* feed, vertical tab, form feed, carriage return, U+001C to U+001F, the
\* blank, U+0085, U+00A0 and U+1680.  The other sixteen (U+2000 to U+200A,
\* U+2028, U+2029, U+202F, U+205F, U+3000) cannot be written in a string of
\* this module and are outside the alphabet of the model.
Whitespace ==
    {"\t", "\n", "", "\f", "\r", "", "", "", "", " ",
     "", " ", " "}

\* str.strip(): leading and trailing whitespace removed.
RECURSIVE Strip(_)
Strip(s) ==
    IF Len(s) = 0 THEN s
    ELSE IF s[1] \in Whitespace THEN Strip(DropFirst(s))
    ELSE IF s[Len(s)] \in Whitespace THEN Strip(DropLast(s))
    ELSE s

\* ','.join(parts)
RECURSIVE Join(_)
Join(parts) ==
    IF Len(parts) = 0 THEN <<>>
    ELSE IF Len(parts) = 1 THEN parts[1]
    ELSE parts[1] \o <<",">> \o Join(Tail(parts))

\* re.match(r'^[a-z]$', term): one lowercase letter, or one lowercase letter
\* and a final line feed ('$' also matches just before a trailing newline).
IsVariable(term) ==
    /\ Len(term) \in {1, 2}
    /\ term[1] \in Lowercase
    /\ Len(term) = 2 => term[2] = "\n"

\* The empty dict {}.
EmptySub == [k \in {} |-> k]

\* substitution[var] = x
Bind(sub, var, x) == [k \in (DOMAIN sub) \cup {var} |-> IF k = var THEN x ELSE sub[k]]

-----------------------------------------------------------------------------
(* tokenize, unify_var, unify.                                              *)

\* tokenize raises ValueError when sentence[:-1] holds no '(': split('(', 1)
\* then gives one piece and the unpacking into two names fails.
TokenizeRaises(sentence) == ~Contains(DropLast(sentence), "(")

\* What stands for a ValueError that leaves a function instead of a value.
ValueError == "ValueError"

\* tokenize(sentence): <<func_name, terms>>, or the ValueError.
tokenize(sentence) ==
    IF TokenizeRaises(sentence) THEN ValueError
    ELSE LET body == DropLast(sentence)
             i == IndexOf(body, "(")
             func_name == SubSeq(body, 1, i - 1)
             rest == SubSeq(body, i + 1, Len(body))
             terms == Split(rest, ",")
         IN  <<func_name, [k \in 1..Len(terms) |-> Strip(terms[k])]>>

\* The value of every "return {}" of unify: a fresh empty dict.
Failure == EmptySub

\* How a call ends and what it leaves in the dict object it was handed:
\* store is the content of the handed object after the call.  A call that
\* returns gives ret, which is either the handed object itself (ret = store)
\* or a fresh {} (ret = Failure).
Returned(r, s) == [raised |-> FALSE, ret |-> r, store |-> s]

\* A call left by the ValueError of tokenize: nothing is returned, and the
\* handed object keeps the bindings written before the raise.
Raised(s) == [raised |-> TRUE, store |-> s]

RECURSIVE unify(_, _, _), unify_var(_, _, _), UnifyArgs(_, _, _, _)

unify_var(var, x, sub) ==
    IF var \in DOMAIN sub THEN unify(sub[var], x, sub)
    ELSE IF x \in DOMAIN sub THEN unify(var, sub[x], sub)
    ELSE IF var # x THEN Returned(Bind(sub, var, x), Bind(sub, var, x))
    ELSE Returned(sub, sub)

\* The for loop of unify over zip(args1, args2), from index i on.
UnifyArgs(args1, args2, i, sub) ==
    IF i > Len(args1) THEN Returned(sub, sub)
    ELSE LET r == unify(args1[i], args2[i], sub)
         IN  IF r.raised THEN r
             ELSE IF r.ret = EmptySub THEN Returned(Failure, r.store)
             ELSE UnifyArgs(args1, args2, i + 1, r.ret)

unify(t1, t2, sub) ==
    IF t1 = t2 THEN Returned(sub, sub)
    ELSE IF IsVariable(t1) THEN unify_var(t1, t2, sub)
    ELSE IF IsVariable(t2) THEN unify_var(t2, t1, sub)
    ELSE IF StartsWithNeg(t1) /\ t2 = DropFirst(t1) THEN Returned(sub, sub)
    ELSE IF StartsWithNeg(t2) /\ t1 = DropFirst(t2) THEN Returned(sub, sub)
    ELSE IF Contains(t1, "(") /\ Contains(t2, "(") THEN
        IF TokenizeRaises(t1) \/ TokenizeRaises(t2) THEN Raised(sub)
        ELSE LET tk1 == tokenize(t1)
                 tk2 == tokenize(t2)
             IN  IF tk1[1] # tk2[1] \/ Len(tk1[2]) # Len(tk2[2]) THEN Returned(Failure, sub)
                 ELSE UnifyArgs(tk1[2], tk2[2], 1, sub)
    ELSE Returned(Failure, sub)

-----------------------------------------------------------------------------
(* The terms the unification behaviours draw from.                          *)

\* x
t_x ==
    <<"x">>
\* y
t_y ==
    <<"y">>
\* John
t_John ==
    <<"J", "o", "h", "n">>
\* Mary
t_Mary ==
    <<"M", "a", "r", "y">>
\* father(x)
t_father_x ==
    <<"f", "a", "t", "h", "e", "r", "(", "x", ")">>
\* father(John)
t_father_John ==
    <<"f", "a", "t", "h", "e", "r", "(", "J", "o", "h", "n", ")">>
\* Parent(x, y)
t_Parent_x_y ==
    <<"P", "a", "r", "e", "n", "t", "(", "x", ",", " ", "y", ")">>
\* Parent(x, x)
t_Parent_x_x ==
    <<"P", "a", "r", "e", "n", "t", "(", "x", ",", " ", "x", ")">>
\* Parent(y,John)
t_Parent_y_John ==
    <<"P", "a", "r", "e", "n", "t", "(", "y", ",", "J", "o", "h", "n", ")">>
\* Parent(John,y)
t_Parent_John_y ==
    <<"P", "a", "r", "e", "n", "t", "(", "J", "o", "h", "n", ",", "y", ")">>
\* Parent(John, Mary)
t_Parent_John_Mary ==
    <<"P", "a", "r", "e", "n", "t", "(", "J", "o", "h", "n", ",", " ", "M", "a", "r", "y", ")">>
\* Parent(John)
t_Parent_John ==
    <<"P", "a", "r", "e", "n", "t", "(", "J", "o", "h", "n", ")">>
\* Loves(father(x), x)
t_Loves_fx_x ==
    <<"L", "o", "v", "e", "s", "(", "f", "a", "t", "h", "e", "r", "(", "x", ")", ",", " ", "x", ")">>
\* Loves(father(John), John)
t_Loves_fJohn_John ==
    <<"L", "o", "v", "e", "s", "(", "f", "a", "t", "h", "e", "r", "(", "J", "o", "h", "n", ")", ",", " ", "J", "o", "h", "n", ")">>
\* King(John)
t_King_John ==
    <<"K", "i", "n", "g", "(", "J", "o", "h", "n", ")">>
\* ¬King(John)
t_notKing_John ==
    <<"¬", "K", "i", "n", "g", "(", "J", "o", "h", "n", ")">>
\* x followed by a line feed
t_x_newline ==
    <<"x", "\n">>
\* Parent(x, y) with a tab in place of the blank
t_Parent_x_tab_y ==
    <<"P", "a", "r", "e", "n", "t", "(", "x", ",", "\t", "y", ")">>
\* g(  (ill-formed: tokenize raises on it)
t_g_open ==
    <<"g", "(">>
\* Parent(x, g()  (ill-formed second argument g( )
t_Parent_x_g_open ==
    <<"P", "a", "r", "e", "n", "t", "(", "x", ",", " ", "g", "(", ")">>
\* Parent(John, h()  (ill-formed second argument h( )
t_Parent_John_h_open ==
    <<"P", "a", "r", "e", "n", "t", "(", "J", "o", "h", "n", ",", " ", "h", "(", ")">>

Terms ==
    {t_x, t_y, t_John, t_Mary, t_father_x, t_father_John,
     t_Parent_x_y, t_Parent_x_x, t_Parent_y_John, t_Parent_John_y,
     t_Parent_John_Mary, t_Parent_John, t_Loves_fx_x, t_Loves_fJohn_John,
     t_King_John, t_notKing_John, t_x_newline, t_Parent_x_tab_y,
     t_g_open, t_Parent_x_g_open, t_Parent_John_h_open}

\* The dicts a caller hands to unify: {} (also what substitution=None
\* becomes), {x: John}, {y: x} and the chain {x: y, y: John}.
SuppliedSubs ==
    {EmptySub,
     Bind(EmptySub, t_x, t_John),
     Bind(EmptySub, t_y, t_x),
     Bind(Bind(EmptySub, t_x, t_y), t_y, t_John)}

-----------------------------------------------------------------------------
(* Idle values of the variables a behaviour does not use.                   *)

UnifyIdle ==
    /\ term1 = <<>>
    /\ term2 = <<>>
    /\ supplied = EmptySub
    /\ substitution = EmptySub
    /\ ret = EmptySub

ApplyIdle ==
    /\ clause = {}
    /\ prev = {}
    /\ applications = 0

ResolveIdle ==
    /\ clause1 = {}
    /\ clause2 = {}
    /\ resolvents = {}

InferIdle ==
    /\ kb = {}
    /\ query = {}
    /\ clauses = {}
    /\ state = "Idle"

-----------------------------------------------------------------------------
(* A call of unify(term1, term2, substitution).                             *)

UnifyInit ==
    /\ op = "unify"
    /\ pc = "call"
    /\ term1 \in Terms
    /\ term2 \in Terms
    /\ supplied \in SuppliedSubs
    /\ substitution = supplied
    /\ ret = EmptySub
    /\ ApplyIdle /\ ResolveIdle /\ InferIdle

\* The call returns.
UnifyCall ==
    /\ op = "unify"
    /\ pc = "call"
    /\ LET r == unify(term1, term2, substitution)
       IN  /\ ~r.raised
           /\ ret' = r.ret
           /\ substitution' = r.store
    /\ pc' = "done"
    /\ UNCHANGED <<op, term1, term2, supplied, applyVars, resolveVars, inferVars>>

\* The call is left by the ValueError of tokenize: nothing is returned.
UnifyCallRaises ==
    /\ op = "unify"
    /\ pc = "call"
    /\ LET r == unify(term1, term2, substitution)
       IN  /\ r.raised
           /\ substitution' = r.store
    /\ pc' = "raised"
    /\ UNCHANGED <<op, term1, term2, supplied, ret, applyVars, resolveVars, inferVars>>

UnifyNext == UnifyCall \/ UnifyCallRaises

SpecUnify == UnifyInit /\ [][UnifyNext]_vars

-----------------------------------------------------------------------------
(* The unification of section 4.2 with a tagged result: the steps of unify, *)
(* with failure as ok = FALSE instead of an empty dict, and a term that     *)
(* does not parse as a failure.  It is the reference the claims about       *)
(* success and failure are stated against.                                  *)

Tagged(o, s) == [ok |-> o, sub |-> s]

RECURSIVE UnifyTagged(_, _, _), UnifyVarTagged(_, _, _), UnifyArgsTagged(_, _, _, _)

UnifyVarTagged(var, x, sub) ==
    IF var \in DOMAIN sub THEN UnifyTagged(sub[var], x, sub)
    ELSE IF x \in DOMAIN sub THEN UnifyTagged(var, sub[x], sub)
    ELSE IF var # x THEN Tagged(TRUE, Bind(sub, var, x))
    ELSE Tagged(TRUE, sub)

UnifyArgsTagged(args1, args2, i, sub) ==
    IF i > Len(args1) THEN Tagged(TRUE, sub)
    ELSE LET r == UnifyTagged(args1[i], args2[i], sub)
         IN  IF ~r.ok THEN Tagged(FALSE, EmptySub)
             ELSE UnifyArgsTagged(args1, args2, i + 1, r.sub)

UnifyTagged(t1, t2, sub) ==
    IF t1 = t2 THEN Tagged(TRUE, sub)
    ELSE IF IsVariable(t1) THEN UnifyVarTagged(t1, t2, sub)
    ELSE IF IsVariable(t2) THEN UnifyVarTagged(t2, t1, sub)
    ELSE IF StartsWithNeg(t1) /\ t2 = DropFirst(t1) THEN Tagged(TRUE, sub)
    ELSE IF StartsWithNeg(t2) /\ t1 = DropFirst(t2) THEN Tagged(TRUE, sub)
    ELSE IF Contains(t1, "(") /\ Contains(t2, "(") THEN
        IF TokenizeRaises(t1) \/ TokenizeRaises(t2) THEN Tagged(FALSE, EmptySub)
        ELSE LET tk1 == tokenize(t1)
                 tk2 == tokenize(t2)
             IN  IF tk1[1] # tk2[1] \/ Len(tk1[2]) # Len(tk2[2]) THEN Tagged(FALSE, EmptySub)
                 ELSE UnifyArgsTagged(tk1[2], tk2[2], 1, sub)
    ELSE Tagged(FALSE, EmptySub)

UnifyDone == op = "unify" /\ pc = "done"

\* C3: the value a successful unify call returns is never the value unify
\* returns for two terms that cannot be unified; unify(t, t) is such a
\* success, with the empty substitution.
C3_FailureDistinctFromSuccess ==
    (UnifyDone /\ UnifyTagged(term1, term2, supplied).ok)
        => \A a \in Terms, b \in Terms :
               (~UnifyTagged(a, b, EmptySub).ok /\ ~unify(a, b, EmptySub).raised)
                   => unify(a, b, EmptySub).ret # ret

\* C4: for two compound terms unify fails when the names or the argument
\* counts differ, and otherwise returns the bindings accumulated left to
\* right over the argument pairs exactly when every pair unifies (a pair of
\* identical arguments unifies and binds nothing).
C4_CompoundArgumentsThreaded ==
    (UnifyDone /\ Contains(term1, "(") /\ Contains(term2, "("))
        => LET t == UnifyTagged(term1, term2, supplied)
           IN  ret = IF t.ok THEN t.sub ELSE Failure

\* C10: when a call of unify with a supplied substitution fails, the
\* supplied mapping holds what it held at the call.
C10_FailureLeavesSuppliedUnchanged ==
    (UnifyDone /\ ~UnifyTagged(term1, term2, supplied).ok)
        => substitution = supplied

-----------------------------------------------------------------------------
(* apply_single_substitution and apply_substitution.                        *)

\* Whether apply_single_substitution(literal, sub) ends in the ValueError of
\* tokenize, raised for the literal or for one of its arguments.
RECURSIVE ApplySingleRaises(_, _)
ApplySingleRaises(literal, sub) ==
    IF literal \in DOMAIN sub THEN FALSE
    ELSE IF Contains(literal, "(") THEN
        IF TokenizeRaises(literal) THEN TRUE
        ELSE LET args == tokenize(literal)[2]
             IN  \E k \in 1..Len(args) : ApplySingleRaises(args[k], sub)
    ELSE FALSE

ApplyRaises(c, sub) == \E literal \in c : ApplySingleRaises(literal, sub)

\* The rewritten literal, or the ValueError.
RECURSIVE apply_single_substitution(_, _)
apply_single_substitution(literal, sub) ==
    IF literal \in DOMAIN sub THEN sub[literal]
    ELSE IF Contains(literal, "(") THEN
        IF ApplySingleRaises(literal, sub) THEN ValueError
        ELSE LET tk == tokenize(literal)
                 substituted_terms ==
                     [k \in 1..Len(tk[2]) |-> apply_single_substitution(tk[2][k], sub)]
             IN  tk[1] \o <<"(">> \o Join(substituted_terms) \o <<")">>
    ELSE literal

\* The rewritten clause, or the ValueError of one of its literals.
apply_substitution(c, sub) ==
    IF ApplyRaises(c, sub) THEN ValueError
    ELSE {apply_single_substitution(literal, sub) : literal \in c}

\* Evil(x)
t_Evil_x ==
    <<"E", "v", "i", "l", "(", "x", ")">>
\* ¬King(x)
t_notKing_x ==
    <<"¬", "K", "i", "n", "g", "(", "x", ")">>
\* ¬Greedy(x)
t_notGreedy_x ==
    <<"¬", "G", "r", "e", "e", "d", "y", "(", "x", ")">>
\* Greedy(x)
t_Greedy_x ==
    <<"G", "r", "e", "e", "d", "y", "(", "x", ")">>
\* Evil(John)
t_Evil_John ==
    <<"E", "v", "i", "l", "(", "J", "o", "h", "n", ")">>

\* The literals the clauses handed to apply_substitution are built from.
ApplyLiterals ==
    {t_x, t_Parent_x_y, t_Loves_fx_x, t_King_John, t_notKing_x, t_Evil_x}

\* The largest clause handed to apply_substitution.
MaxApplyClause == 2

\* How many times in a row the caller applies the same substitution.
MaxApplications == 2

ApplyClauses == {c \in SUBSET ApplyLiterals : Cardinality(c) \in 1..MaxApplyClause}

\* The substitutions applied: every value a call of unify on Terms returns.
UnifyResults ==
    {unify(t[1], t[2], t[3]).ret :
        t \in {u \in Terms \X Terms \X SuppliedSubs : ~unify(u[1], u[2], u[3]).raised}}

ApplyInit ==
    /\ op = "apply_substitution"
    /\ pc = "call"
    /\ substitution \in UnifyResults
    /\ clause \in ApplyClauses
    /\ prev = {}
    /\ applications = 0
    /\ term1 = <<>> /\ term2 = <<>> /\ supplied = EmptySub /\ ret = EmptySub
    /\ ResolveIdle /\ InferIdle

\* clause = apply_substitution(clause, substitution)
ApplySubstitution ==
    /\ op = "apply_substitution"
    /\ pc # "raised"
    /\ applications < MaxApplications
    /\ ~ApplyRaises(clause, substitution)
    /\ prev' = clause
    /\ clause' = apply_substitution(clause, substitution)
    /\ applications' = applications + 1
    /\ pc' = "done"
    /\ UNCHANGED <<op, unifyVars, resolveVars, inferVars>>

\* The same statement when the call raises: nothing is assigned.
ApplySubstitutionRaises ==
    /\ op = "apply_substitution"
    /\ pc # "raised"
    /\ applications < MaxApplications
    /\ ApplyRaises(clause, substitution)
    /\ pc' = "raised"
    /\ UNCHANGED <<op, unifyVars, applyVars, resolveVars, inferVars>>

ApplyNext == ApplySubstitution \/ ApplySubstitutionRaises

SpecApply == ApplyInit /\ [][ApplyNext]_vars

\* The variables of a term: the term itself when it is a variable, the
\* variables of its arguments when it is compound.
RECURSIVE TermVars(_)
TermVars(t) ==
    IF IsVariable(t) THEN {t}
    ELSE IF Contains(t, "(") /\ ~TokenizeRaises(t) THEN
        LET args == tokenize(t)[2] IN UNION {TermVars(args[k]) : k \in 1..Len(args)}
    ELSE {}

\* The variables reached from the set S through at most n bindings of sub.
RECURSIVE ReachedVars(_, _, _)
ReachedVars(sub, S, n) ==
    IF n = 0 THEN S
    ELSE ReachedVars(sub, S \cup UNION {TermVars(sub[v]) : v \in S \cap DOMAIN sub}, n - 1)

\* No variable maps, directly or transitively, to a term containing itself.
Acyclic(sub) ==
    \A v \in DOMAIN sub :
        v \notin ReachedVars(sub, TermVars(sub[v]), Cardinality(DOMAIN sub))

\* C7: applying an acyclic substitution a second time changes nothing:
\* apply_substitution(apply_substitution(c, sub), sub) = apply_substitution(c, sub).
C7_ApplyIdempotentWhenAcyclic ==
    (op = "apply_substitution" /\ applications >= 2 /\ Acyclic(substitution))
        => clause = prev

-----------------------------------------------------------------------------
(* negate_literal, negate, resolve_clause.                                  *)

\* literal[1:] if literal.startswith('¬') else f'¬{literal}'
negate_literal(literal) ==
    IF StartsWithNeg(literal) THEN DropFirst(literal) ELSE <<NEG>> \o literal

negate(q) == {negate_literal(lit) : lit \in q}

\* resolve_clause with the resolvent built from clause1 alone: the rest of
\* clause2 is lost.
resolve_clause_drops_clause2(c1, c2) ==
    {c1 \ {literal} : literal \in {l \in c1 : (<<NEG>> \o l) \in c2}}

\* One resolvent for every literal of c1 whose text with a '¬' put in front
\* is a member of c2.
resolve_clause(c1, c2) ==
    {(c1 \ {literal}) \cup (c2 \ {<<NEG>> \o literal}) :
        literal \in {l \in c1 : (<<NEG>> \o l) \in c2}}

-----------------------------------------------------------------------------
(* The clauses the resolution behaviours draw from.                         *)

\* The propositional atoms every knowledge base and query is drawn over.
Atoms == {<<"A">>, <<"B">>}

GroundLiterals == Atoms \cup {<<NEG>> \o a : a \in Atoms}

\* The largest clause of a knowledge base or query.
MaxClauseLen == 2

\* The largest knowledge base.
MaxKB == 3

GroundClauses == {c \in SUBSET GroundLiterals : Cardinality(c) <= MaxClauseLen}

\* The sets of at most n ground clauses.
RECURSIVE KBsUpTo(_)
KBsUpTo(n) ==
    IF n = 0 THEN {{}}
    ELSE LET smaller == KBsUpTo(n - 1)
         IN  smaller \cup {k \cup {c} : k \in smaller, c \in GroundClauses}

GroundKBs == KBsUpTo(MaxKB)

GroundQueries == GroundClauses \ {{}}

\* The knowledge base and query of main():
\* {¬King(x), ¬Greedy(x), Evil(x)}, {King(John)}, {Greedy(x)} and Evil(John).
KingKB == {{t_notKing_x, t_notGreedy_x, t_Evil_x}, {t_King_John}, {t_Greedy_x}}

KingQuery == {t_Evil_John}

\* The second example of main(): {A}, {¬A, C} and the query C.
SimpleKB == {{<<"A">>}, {<<NEG, "A">>, <<"C">>}}

SimpleQuery == {<<"C">>}

\* A knowledge base with no complementary literals: {A}, {B} and the query C.
PlainKB == {{<<"A">>}, {<<"B">>}}

PlainQuery == {<<"C">>}

-----------------------------------------------------------------------------
(* A call of resolve_clause(clause1, clause2).                              *)

ResolveInit ==
    /\ op = "resolve_clause"
    /\ pc = "call"
    /\ clause1 \in GroundClauses
    /\ clause2 \in GroundClauses
    /\ resolvents = {}
    /\ UnifyIdle /\ ApplyIdle /\ InferIdle

ResolveClause ==
    /\ op = "resolve_clause"
    /\ pc = "call"
    /\ resolvents' = resolve_clause(clause1, clause2)
    /\ pc' = "done"
    /\ UNCHANGED <<op, clause1, clause2, unifyVars, applyVars, inferVars>>

ResolveNext == ResolveClause

SpecResolve == ResolveInit /\ [][ResolveNext]_vars

\* C5: resolve_clause(A, B) is exactly the set of the clauses
\* (A - {L}) + (B - {comp(L)}), one for every literal L of A, positive or
\* negated, whose complement comp(L) (negation marker toggled) is in B.
C5_ResolventsOfEveryComplementaryPair ==
    (op = "resolve_clause" /\ pc = "done")
        => resolvents =
               {(clause1 \ {l}) \cup (clause2 \ {negate_literal(l)}) :
                   l \in {m \in clause1 : negate_literal(m) \in clause2}}

-----------------------------------------------------------------------------
(* inference_by_resolution(kb, query): one action per turn of the while     *)
(* loop, by the way the turn ends.                                          *)

\* The test for the empty clause taken for a test for no resolvents.
HasEmptyClause_no_resolvents(rs) == rs = {}

\* frozenset() in resolvents
HasEmptyClause(rs) == {} \in rs

\* The resolvents of every ordered pair of distinct clauses of cs.
PairResolvents(cs) ==
    {resolve_clause(pair[1], pair[2]) : pair \in {p \in cs \X cs : p[1] # p[2]}}

\* new_resolvents at the end of the two for loops, when no pair returned.
NewResolvents(cs) == UNION PairResolvents(cs)

\* "return True" inside the loops: some pair's resolvents hold the empty clause.
EmptyClauseFound(cs) == \E rs \in PairResolvents(cs) : HasEmptyClause(rs)

\* The fixpoint test taken for a test that nothing was resolved at all.
IsFixpoint_nothing_resolved(new_resolvents, cs) == new_resolvents = {}

\* new_resolvents.issubset(clauses)
IsFixpoint(new_resolvents, cs) == new_resolvents \subseteq cs

\* clauses = kb | {negated_query}
InitialClauses(k, q) == k \cup {negate(q)}

InferInit ==
    /\ op = "inference_by_resolution"
    /\ pc = "call"
    /\ \/ kb \in GroundKBs /\ query \in GroundQueries
       \/ kb = KingKB /\ query = KingQuery
       \/ kb = SimpleKB /\ query = SimpleQuery
       \/ kb = PlainKB /\ query = PlainQuery
    /\ clauses = InitialClauses(kb, query)
    /\ state = "Running"
    /\ UnifyIdle /\ ApplyIdle /\ ResolveIdle

ReturnTrue ==
    /\ op = "inference_by_resolution"
    /\ state = "Running"
    /\ EmptyClauseFound(clauses)
    /\ state' = "Proved"
    /\ pc' = "done"
    /\ UNCHANGED <<op, kb, query, clauses, unifyVars, applyVars, resolveVars>>

ReturnFalse ==
    /\ op = "inference_by_resolution"
    /\ state = "Running"
    /\ ~EmptyClauseFound(clauses)
    /\ IsFixpoint(NewResolvents(clauses), clauses)
    /\ state' = "NotEntailed"
    /\ pc' = "done"
    /\ UNCHANGED <<op, kb, query, clauses, unifyVars, applyVars, resolveVars>>

\* clauses = clauses | new_resolvents, and the loop goes round again.
Saturate ==
    /\ op = "inference_by_resolution"
    /\ state = "Running"
    /\ ~EmptyClauseFound(clauses)
    /\ ~IsFixpoint(NewResolvents(clauses), clauses)
    /\ clauses' = clauses \cup NewResolvents(clauses)
    /\ pc' = "loop"
    /\ UNCHANGED <<op, kb, query, state, unifyVars, applyVars, resolveVars>>

Next == ReturnTrue \/ ReturnFalse \/ Saturate

Spec == InferInit /\ [][Next]_vars

\* The while loop keeps running until it returns: each turn is taken.
FairSpec == Spec /\ WF_vars(Next)

-----------------------------------------------------------------------------
(* Reference notions the claims about inference are stated against:         *)
(* propositional truth tables over the atoms that occur, and the closure of *)
(* a clause set under resolve_clause.                                       *)

Inferring == op = "inference_by_resolution"

\* No literal of the clause set holds a variable (a one-letter lowercase
\* argument): every literal is a propositional atom or its negation.
IsGround(cs) == \A c \in cs : \A l \in c : TermVars(l) = {}

AtomOf(l) == IF StartsWithNeg(l) THEN DropFirst(l) ELSE l

AtomsOf(cs) == {AtomOf(l) : l \in UNION cs}

\* v is the set of the atoms that are true.
LiteralTrue(l, v) == IF StartsWithNeg(l) THEN DropFirst(l) \notin v ELSE l \in v

ClauseTrue(c, v) == \E l \in c : LiteralTrue(l, v)

AllTrue(cs, v) == \A c \in cs : ClauseTrue(c, v)

\* Every truth assignment that satisfies every clause of k satisfies the
\* disjunction q.
Entails(k, q) ==
    \A v \in SUBSET AtomsOf(k \cup {q}) : AllTrue(k, v) => ClauseTrue(q, v)

\* The least set that holds cs and every resolvent of two distinct clauses
\* of it.
RECURSIVE ResolutionClosure(_)
ResolutionClosure(cs) ==
    LET more == cs \cup UNION {resolve_clause(p[1], p[2]) : p \in {r \in cs \X cs : r[1] # r[2]}}
    IN  IF more = cs THEN cs ELSE ResolutionClosure(more)

\* The empty clause is a resolvent of two distinct clauses of cs.
EmptyClauseResolvent(cs) ==
    \E a \in cs, b \in cs : a # b /\ {} \in resolve_clause(a, b)

\* No literal of the clause set has its text with a '¬' in front anywhere in
\* the set: no pair of clauses resolves.
NoComplementaryPair(cs) == \A l \in UNION cs : (<<NEG>> \o l) \notin UNION cs

HasReturned == state \in {"Proved", "NotEntailed"}

\* C1: with the knowledge base {¬King(x), ¬Greedy(x), Evil(x)}, {King(John)},
\* {Greedy(x)} and the query Evil(John), inference returns True (Proved).
C1_KingJohnIsProved ==
    (Inferring /\ kb = KingKB /\ query = KingQuery /\ HasReturned) => state = "Proved"

\* C2: on a ground knowledge base (of clauses of one or more literals) and a
\* ground query of one or more literals, inference returns True if and only
\* if the knowledge base entails the disjunction of the query's literals.
C2_ProvedIffEntailed ==
    (Inferring /\ HasReturned /\ IsGround(InitialClauses(kb, query)) /\ {} \notin kb)
        => (state = "Proved" <=> Entails(kb, query))

\* C6: the loop ends, after finitely many turns, in Proved or NotEntailed;
\* when no two clauses of KB + {negated query} hold complementary literals
\* it ends in NotEntailed.
C6_SaturationTerminates ==
    /\ <>HasReturned
    /\ [](state = "Proved" => ~NoComplementaryPair(InitialClauses(kb, query)))

\* C6 witness: the loop has ended in NotEntailed on {A}, {B} with query C.
C6_Witness ==
    Inferring /\ kb = PlainKB /\ query = PlainQuery /\ state = "NotEntailed"

\* C8: the driver leaves Running for Proved exactly when the empty clause is
\* a resolvent of two distinct clauses of the working set, and for
\* NotEntailed only at a fixpoint; it returns True if and only if the empty
\* clause is a resolvent of two distinct clauses of the closure of
\* KB + {negate(query)} under resolve_clause, and when it returns False the
\* working set holds every resolvent of its pairs and none is empty.
\* inference({A}, {¬A, C}; C) is Proved.
C8_ProvedIffEmptyClauseDerived ==
    /\ [](Inferring =>
            /\ state = "Proved" =>
                 /\ EmptyClauseResolvent(clauses)
                 /\ EmptyClauseResolvent(ResolutionClosure(InitialClauses(kb, query)))
            /\ state = "NotEntailed" =>
                 /\ ~EmptyClauseResolvent(ResolutionClosure(InitialClauses(kb, query)))
                 /\ clauses = ResolutionClosure(InitialClauses(kb, query))
                 /\ \A a \in clauses, b \in clauses :
                        a # b => resolve_clause(a, b) \subseteq clauses \ {{}}
            /\ (kb = SimpleKB /\ query = SimpleQuery /\ HasReturned) => state = "Proved")
    /\ [][(Inferring /\ state = "Running")
            => /\ state' = "Proved" <=> EmptyClauseResolvent(clauses)
               /\ state' = "NotEntailed" =>
                    \A a \in clauses, b \in clauses :
                        a # b => resolve_clause(a, b) \subseteq clauses]_vars

\* C8 witness: inference({A}, {¬A, C}; C) has returned Proved, after the
\* working set grew.
C8_Witness ==
    /\ Inferring /\ kb = SimpleKB /\ query = SimpleQuery /\ state = "Proved"
    /\ clauses # InitialClauses(kb, query)

\* C9: on ground inputs, every clause of the working set is a logical
\* consequence of KB + {negate(query)} and is built from literals that occur
\* there, and a return of True means that no truth assignment satisfies every
\* clause of the knowledge base while falsifying every literal of the query.
C9_ResolutionSound ==
    Inferring =>
        /\ UNION clauses \subseteq UNION InitialClauses(kb, query)
        /\ IsGround(InitialClauses(kb, query)) =>
             /\ \A c \in clauses :
                    \A v \in SUBSET AtomsOf(InitialClauses(kb, query)) :
                        AllTrue(InitialClauses(kb, query), v) => ClauseTrue(c, v)
             /\ state = "Proved" =>
                    ~\E v \in SUBSET AtomsOf(kb \cup {query}) :
                        AllTrue(kb, v) /\ \A l \in query : ~LiteralTrue(l, v)

\* C9 witness: a ground inference has returned Proved from a working set
\* that holds derived clauses.
C9_Witness ==
    /\ Inferring /\ state = "Proved"
    /\ IsGround(InitialClauses(kb, query))
    /\ kb \in GroundKBs
    /\ ~(clauses \subseteq InitialClauses(kb, query))

=============================================================================
